---- MODULE Spec2Model ----
(***************************************************************************)
(* Link generation and pagination tokens of stac_fastapi.pgstac            *)
(* (stac_fastapi/pgstac/models/links.py).                                  *)
(*                                                                         *)
(* Text is modelled as a sequence of one-character strings, so that the    *)
(* parsing, quoting and unquoting the code performs on URLs are computed   *)
(* character by character.  The alphabet is lower-case letters, the hex    *)
(* digits that occur in the escapes of EscTable, and the characters of     *)
(* Reserved; str.lower() is the identity on it.  No input holds an escape  *)
(* %XX outside EscTable, and none holds ';'.  The titiler templates of     *)
(* TileLinks hold other characters, in the path and query only.            *)
(***************************************************************************)
EXTENDS Integers, Sequences, FiniteSets, TLC

VARIABLES
    m_pc,       \* merge machine: "in" -> "once" -> "twice"
    m_url,      \* merge_params argument url
    m_new,      \* merge_params argument newparams (an ordered dict)
    m_href,     \* merge_params(url, newparams)
    m_href2,    \* merge_params(merge_params(url, newparams), newparams)
    self,       \* the links object get_links is called on
    raw_links,  \* the links as persisted or supplied, before any filtering
    filtered,   \* whether filter_links has been applied to the links
    extra_links,\* the extra_links argument (its dicts are mutated in place)
    postbody,   \* the object request.postbody refers to, None until set
    pc,         \* get_links: "ready", "await_json", "returned", "raised"
    links,      \* the list get_links returned
    calls,      \* get_links calls made on self
    reads,      \* times the request body was read from the transport
    w_pc,       \* paging client: "start", "paging"
    w_items,    \* the ids of the stored items, in serving order
    w_req,      \* the request the client sent last (or is about to send)
    w_first,    \* the token of the client's first request, NoStr for none
    w_page,     \* the response the client holds
    w_trail,    \* the item ids of every page fetched, in order
    w_moves,    \* the links followed so far: "next" or "prev"
    t_pc,       \* tile links: "new", "built"
    t_args,     \* the arguments TileLinks is constructed from
    t_obj,      \* the TileLinks object
    t_out,      \* what each link method returned or raised, None before its call
    c_self,     \* concurrent handlers: the links object of each handler
    c_pc,       \* each handler's place: "ready", "await_json", "returned", "raised"
    c_postbody, \* the postbody attribute of each handler's request
    c_links,    \* the list each handler's last get_links call returned
    c_calls,    \* get_links calls each handler has completed
    c_default,  \* the list object that is the default of extra_links
    c_overlap   \* a handler was suspended at its read while another was

mvars == <<m_pc, m_url, m_new, m_href, m_href2>>

lvars == <<self, raw_links, filtered, extra_links, postbody, pc, links, calls, reads>>

wvars == <<w_pc, w_items, w_req, w_first, w_page, w_trail, w_moves>>

tvars == <<t_pc, t_args, t_obj, t_out>>

cvars == <<c_self, c_pc, c_postbody, c_links, c_calls, c_default, c_overlap>>

vars == <<m_pc, m_url, m_new, m_href, m_href2,
          self, raw_links, filtered, extra_links, postbody, pc, links, calls, reads,
          w_pc, w_items, w_req, w_first, w_page, w_trail, w_moves,
          t_pc, t_args, t_obj, t_out,
          c_self, c_pc, c_postbody, c_links, c_calls, c_default, c_overlap>>

----------------------------------------------------------------------------
(* Bounds of the model.                                                    *)

\* the most key=value pieces an input query string is built from
MaxPairs == 2

\* the most links an extra_links argument holds
MaxExtra == 2

\* the most get_links calls made on one links object
MaxCalls == 2

\* the most items the store holds
MaxItems == 4

\* the largest page size a client asks for
MaxLimit == 2

\* the most links a client follows
MaxMoves == 4

----------------------------------------------------------------------------
(* Text helpers (Python str operations used by urllib.parse).              *)

\* str.find: the index of the first c in s, 0 when there is none
Find(s, c) ==
    IF \E i \in 1..Len(s) : s[i] = c
    THEN CHOOSE i \in 1..Len(s) : s[i] = c /\ \A j \in 1..(i - 1) : s[j] # c
    ELSE 0

\* the index of the first character of s that is in set cs, 0 when none
FindAny(s, cs) ==
    IF \E i \in 1..Len(s) : s[i] \in cs
    THEN CHOOSE i \in 1..Len(s) : s[i] \in cs /\ \A j \in 1..(i - 1) : s[j] \notin cs
    ELSE 0

\* s[i:] with a 1-based first index
From(s, i) == SubSeq(s, i, Len(s))

\* str.split(c): the pieces of s between occurrences of c
RECURSIVE Split(_, _)
Split(s, c) ==
    LET i == Find(s, c)
    IN  IF i = 0 THEN <<s>>
        ELSE <<SubSeq(s, 1, i - 1)>> \o Split(From(s, i + 1), c)

\* str.split(c, 1): at most one split
Split1(s, c) ==
    LET i == Find(s, c)
    IN  IF i = 0 THEN <<s>> ELSE <<SubSeq(s, 1, i - 1), From(s, i + 1)>>

\* c.join(parts)
RECURSIVE Join(_, _)
Join(parts, c) ==
    IF Len(parts) = 0 THEN <<>>
    ELSE IF Len(parts) = 1 THEN parts[1]
    ELSE parts[1] \o <<c>> \o Join(Tail(parts), c)

\* str.replace('+', ' ')
PlusToSpace(s) == [i \in 1..Len(s) |-> IF s[i] = "+" THEN " " ELSE s[i]]

----------------------------------------------------------------------------
(* Percent encoding (urllib.parse.quote_plus / unquote).                   *)

\* characters quote_plus escapes, with their two hex digits
EscTable ==
    [c \in {" ", "#", "%", "&", "+", ",", "/", ":", "=", "?"} |->
        CASE c = " " -> <<"2", "0">>
          [] c = "#" -> <<"2", "3">>
          [] c = "%" -> <<"2", "5">>
          [] c = "&" -> <<"2", "6">>
          [] c = "+" -> <<"2", "B">>
          [] c = "," -> <<"2", "C">>
          [] c = "/" -> <<"2", "F">>
          [] c = ":" -> <<"3", "A">>
          [] c = "=" -> <<"3", "D">>
          [] c = "?" -> <<"3", "F">>]

Reserved == DOMAIN EscTable

\* quote_plus of one character: ' ' becomes '+', a reserved one %XX
QuoteChar(c) ==
    IF c = " " THEN <<"+">>
    ELSE IF c \in Reserved THEN <<"%">> \o EscTable[c]
    ELSE <<c>>

RECURSIVE quote_plus(_)
quote_plus(s) ==
    IF Len(s) = 0 THEN <<>> ELSE QuoteChar(Head(s)) \o quote_plus(Tail(s))

\* the character an escape %XX stands for; a pair that is no escape keeps
\* its '%' literally (unquote leaves malformed escapes alone)
IsEscape(s) ==
    /\ Len(s) >= 3
    /\ s[1] = "%"
    /\ \E c \in Reserved : EscTable[c] = <<s[2], s[3]>>

Unescape(s) == CHOOSE c \in Reserved : EscTable[c] = <<s[2], s[3]>>

\* unquote: one pass, every %XX replaced by its character, '+' untouched
RECURSIVE unquote(_)
unquote(s) ==
    IF Len(s) = 0 THEN <<>>
    ELSE IF IsEscape(s) THEN <<Unescape(s)>> \o unquote(From(s, 4))
    ELSE <<Head(s)>> \o unquote(Tail(s))

----------------------------------------------------------------------------
(* Ordered dicts: a sequence of [k, v] entries with distinct keys, v the   *)
(* list of values (a str value is the one-element list: urlencode with     *)
(* doseq writes both the same way).                                        *)

Keys(d) == {d[i].k : i \in 1..Len(d)}

Get(d, key) == (CHOOSE i \in 1..Len(d) : d[i].k = key)

\* d[key].append(value), or d[key] = [value] for a new key
AddValue(d, key, value) ==
    IF key \in Keys(d)
    THEN [i \in 1..Len(d) |->
            IF d[i].k = key THEN [k |-> key, v |-> Append(d[i].v, value)] ELSE d[i]]
    ELSE Append(d, [k |-> key, v |-> <<value>>])

\* d[key] = values: an existing key keeps its place, a new one goes last
SetKey(d, key, values) ==
    IF key \in Keys(d)
    THEN [i \in 1..Len(d) |-> IF d[i].k = key THEN [k |-> key, v |-> values] ELSE d[i]]
    ELSE Append(d, [k |-> key, v |-> values])

\* dict.update(other)
RECURSIVE Update(_, _)
Update(d, other) ==
    IF Len(other) = 0 THEN d
    ELSE Update(SetKey(d, Head(other).k, Head(other).v), Tail(other))

----------------------------------------------------------------------------
(* urllib.parse: parse_qs, urlencode, urlparse, ParseResult.geturl         *)

\* parse_qsl over the '&'-separated fields: an empty field, a field with
\* no '=' and a field with an empty value are all skipped
RECURSIVE ParseFields(_, _)
ParseFields(fields, d) ==
    IF Len(fields) = 0 THEN d
    ELSE LET nv == Split1(Head(fields), "=")
         IN  IF Len(nv) = 2 /\ Len(nv[2]) > 0
             THEN ParseFields(Tail(fields),
                     AddValue(d, unquote(PlusToSpace(nv[1])),
                                 unquote(PlusToSpace(nv[2]))))
             ELSE ParseFields(Tail(fields), d)

parse_qs(qs) == IF Len(qs) = 0 THEN <<>> ELSE ParseFields(Split(qs, "&"), <<>>)

\* the k=v fields of one entry, one per value
EncodeEntry(e) == [i \in 1..Len(e.v) |-> quote_plus(e.k) \o <<"=">> \o quote_plus(e.v[i])]

RECURSIVE EncodeFields(_)
EncodeFields(d) ==
    IF Len(d) = 0 THEN <<>> ELSE EncodeEntry(Head(d)) \o EncodeFields(Tail(d))

\* urlencode(params, True)
urlencode(d) == Join(EncodeFields(d), "&")

SchemeChars == {"a", "b", "c", "d", "e", "f", "g", "h", "i", "j", "k", "l", "m",
                "n", "o", "p", "q", "r", "s", "t", "u", "v", "w", "x", "y", "z"}

\* urlsplit, first step: the scheme is what precedes the first ':' (at i)
\* when that is all scheme characters, and the given default otherwise
SplitSchemeAt(url, default, i) ==
    IF i > 1 /\ \A j \in 1..(i - 1) : url[j] \in SchemeChars
    THEN [scheme |-> SubSeq(url, 1, i - 1), rest |-> From(url, i + 1)]
    ELSE [scheme |-> default, rest |-> url]

\* second step: after '//' the netloc runs to the first of '/?#' (at e)
SplitNetlocAt(p, after, e) ==
    IF e = 0
    THEN [scheme |-> p.scheme, netloc |-> after, rest |-> <<>>]
    ELSE [scheme |-> p.scheme, netloc |-> SubSeq(after, 1, e - 1), rest |-> From(after, e)]

SplitNetloc(p) ==
    IF Len(p.rest) >= 2 /\ p.rest[1] = "/" /\ p.rest[2] = "/"
    THEN SplitNetlocAt(p, From(p.rest, 3), FindAny(From(p.rest, 3), {"/", "?", "#"}))
    ELSE [scheme |-> p.scheme, netloc |-> <<>>, rest |-> p.rest]

\* third step: the fragment follows the first '#' (at f)
SplitFragmentAt(p, f) ==
    IF f = 0
    THEN [scheme |-> p.scheme, netloc |-> p.netloc, rest |-> p.rest, fragment |-> <<>>]
    ELSE [scheme |-> p.scheme, netloc |-> p.netloc, rest |-> SubSeq(p.rest, 1, f - 1),
          fragment |-> From(p.rest, f + 1)]

\* last step: the query follows the first '?' (at q) of what is left
SplitQueryAt(p, q) ==
    IF q = 0
    THEN [scheme |-> p.scheme, netloc |-> p.netloc, path |-> p.rest,
          query |-> <<>>, fragment |-> p.fragment]
    ELSE [scheme |-> p.scheme, netloc |-> p.netloc, path |-> SubSeq(p.rest, 1, q - 1),
          query |-> From(p.rest, q + 1), fragment |-> p.fragment]

SplitFragment(p) == SplitFragmentAt(p, Find(p.rest, "#"))
SplitQuery(p) == SplitQueryAt(p, Find(p.rest, "?"))

\* urlparse(url, scheme)
urlparse_with(url, default) ==
    SplitQuery(SplitFragment(SplitNetloc(SplitSchemeAt(url, default, Find(url, ":")))))

urlparse(url) == urlparse_with(url, <<>>)

\* the schemes urllib lists in uses_netloc and uses_relative that the model
\* meets: http and the empty scheme
UsesNetloc == {<<"h", "t", "t", "p">>, <<>>}

\* urlunsplit: '//' and the netloc are written when there is a netloc, or
\* the scheme takes one and the path does not start with '//'
WithNetloc(u) ==
    IF \/ Len(u.netloc) > 0
       \/ /\ Len(u.scheme) > 0
          /\ u.scheme \in UsesNetloc
          /\ ~(Len(u.path) >= 2 /\ u.path[1] = "/" /\ u.path[2] = "/")
    THEN <<"/", "/">> \o u.netloc
           \o (IF Len(u.path) > 0 /\ u.path[1] # "/" THEN <<"/">> ELSE <<>>)
           \o u.path
    ELSE u.path

\* ParseResult.geturl (urlunparse): empty parts are left out
geturl(u) ==
    (IF Len(u.scheme) > 0 THEN u.scheme \o <<":">> ELSE <<>>)
    \o WithNetloc(u)
    \o (IF Len(u.query) > 0 THEN <<"?">> \o u.query ELSE <<>>)
    \o (IF Len(u.fragment) > 0 THEN <<"#">> \o u.fragment ELSE <<>>)

\* segments[1:-1] = filter(None, segments[1:-1])
DropEmptyMiddle(segs) ==
    IF Len(segs) <= 2 THEN segs
    ELSE <<segs[1]>>
           \o SelectSeq(SubSeq(segs, 2, Len(segs) - 1), LAMBDA x : Len(x) > 0)
           \o <<segs[Len(segs)]>>

\* the loop of urljoin that removes '.' and '..' segments
RECURSIVE ResolveDots(_, _)
ResolveDots(segs, acc) ==
    IF Len(segs) = 0 THEN acc
    ELSE IF Head(segs) = <<".", ".">>
         THEN ResolveDots(Tail(segs),
                 IF Len(acc) = 0 THEN acc ELSE SubSeq(acc, 1, Len(acc) - 1))
    ELSE IF Head(segs) = <<".">> THEN ResolveDots(Tail(segs), acc)
    ELSE ResolveDots(Tail(segs), Append(acc, Head(segs)))

\* base_parts: the base path's segments without its last, non-empty one
BaseParts(segs) ==
    IF segs[Len(segs)] # <<>> THEN SubSeq(segs, 1, Len(segs) - 1) ELSE segs

\* the segments urljoin resolves
Segments(bpath, path) ==
    IF path[1] = "/" THEN Split(path, "/")
    ELSE DropEmptyMiddle(BaseParts(Split(bpath, "/")) \o Split(path, "/"))

\* resolved_path, with '' appended after a final '.' or '..'
Resolved(segments) ==
    IF segments[Len(segments)] \in {<<".">>, <<".", ".">>}
    THEN Append(ResolveDots(segments, <<>>), <<>>)
    ELSE ResolveDots(segments, <<>>)

\* '/'.join(resolved_path) or '/'
OrSlash(joined) == IF Len(joined) = 0 THEN <<"/">> ELSE joined

JoinPath(bpath, path) == OrSlash(Join(Resolved(Segments(bpath, path)), "/"))

\* urljoin over the parsed base b and the parsed target t
JoinParsed(url, b, t) ==
    IF t.scheme # b.scheme \/ t.scheme \notin UsesNetloc THEN url
    ELSE IF Len(t.netloc) > 0 THEN geturl(t)
    ELSE IF Len(t.path) = 0
    THEN geturl([t EXCEPT !.netloc = b.netloc, !.path = b.path,
                          !.query = IF Len(t.query) = 0 THEN b.query ELSE t.query])
    ELSE geturl([t EXCEPT !.netloc = b.netloc, !.path = JoinPath(b.path, t.path)])

JoinWithBase(url, b) == JoinParsed(url, b, urlparse_with(url, b.scheme))

\* urljoin(base, url)
urljoin(base, url) ==
    IF Len(base) = 0 THEN url
    ELSE IF Len(url) = 0 THEN base
    ELSE JoinWithBase(url, urlparse(base))

\* the href merge_params returns for the parsed url u
MergeParsed(u, newparams) ==
    geturl([u EXCEPT !.query = unquote(urlencode(Update(parse_qs(u.query), newparams)))])

\* merge_params(url, newparams)
merge_params(url, newparams) == MergeParsed(urlparse(url), newparams)

\* the token parameter and the prefixes that wrap a cursor
TokenKey == <<"t", "o", "k", "e", "n">>
NextPrefix == <<"n", "e", "x", "t", ":">>
PrevPrefix == <<"p", "r", "e", "v", ":">>

----------------------------------------------------------------------------
(* models/links.py: the link classes.                                      *)

\* Python's None where a dict is expected, and where a str is expected
\* (no text of the model holds a character "None")
None == [none |-> TRUE]
NoStr == <<"None">>

INFERRED_LINK_RELS == <<"self", "item", "parent", "collection", "root">>

\* the test against a list that lacks "root"
IsInferred_without_root(rel) ==
    \E i \in 1..(Len(INFERRED_LINK_RELS) - 1) : INFERRED_LINK_RELS[i] = rel

IsInferred(rel) == \E i \in 1..Len(INFERRED_LINK_RELS) : INFERRED_LINK_RELS[i] = rel

\* filter_links: the comprehension over links, in order
RECURSIVE filter_links(_)
filter_links(ls) ==
    IF Len(ls) = 0 THEN <<>>
    ELSE IF ~IsInferred(Head(ls).rel) THEN <<Head(ls)>> \o filter_links(Tail(ls))
    ELSE filter_links(Tail(ls))

\* MimeTypes.json, MimeTypes.geojson
MimeJson == "application/json"
MimeGeojson == "application/geo+json"

\* the fixed path pieces of the link templates
Collections == <<"c", "o", "l", "l", "e", "c", "t", "i", "o", "n", "s">>
ItemsPath == <<"i", "t", "e", "m", "s">>
TilesPath == <<"t", "i", "l", "e", "s">>

\* BaseLinks.base_url, BaseLinks.url
base_url(obj) == obj.request.base_url
url_of(obj) == obj.request.url

\* resolve by gluing the target to the base URL
resolve_by_concatenation(obj, url) == base_url(obj) \o url

\* BaseLinks.resolve
resolve(obj, url) == urljoin(base_url(obj), url)

\* a link's "body" is the request.postbody object itself, not a copy: the
\* model keeps the object in postbody and the reference in the link
BodyRef == [ref |-> "request.postbody"]

\* body["token"] = token on the dict object
SetToken(body, token) ==
    [f \in (DOMAIN body) \cup {"token"} |-> IF f = "token" THEN token ELSE body[f]]

\* what a producer gives back: its return value and the object it mutated
Produced(link, pb) == [link |-> link, postbody |-> pb]

\* a JSON payload that is an array, not an object
JsonArray == [json_array |-> TRUE]

IsObject(v) == "json_array" \notin DOMAIN v

\* body["token"] = ... on a payload that is not a dict
TypeError == [raised |-> "TypeError"]

IsRaised(x) == "raised" \in DOMAIN x

BaseLinks_link_self(obj, pb) ==
    Produced([rel |-> "self", type |-> MimeJson, href |-> url_of(obj)], pb)

link_root(obj, pb) ==
    Produced([rel |-> "root", type |-> MimeJson, href |-> base_url(obj)], pb)

\* link_next without the test of self.next
link_next_unguarded(obj, pb) ==
    IF obj.request.method = "GET"
    THEN Produced([rel |-> "next", type |-> MimeJson, method |-> "GET",
                   href |-> merge_params(url_of(obj),
                              <<[k |-> TokenKey, v |-> <<NextPrefix \o obj.next>>]>>)],
                  pb)
    ELSE IF obj.request.method = "POST"
    THEN Produced([rel |-> "next", type |-> MimeJson, method |-> "POST",
                   href |-> url_of(obj), body |-> BodyRef],
                  SetToken(pb, NextPrefix \o obj.next))
    ELSE Produced(None, pb)

link_next(obj, pb) ==
    IF obj.next # NoStr
    THEN IF obj.request.method = "GET"
         THEN Produced([rel |-> "next", type |-> MimeJson, method |-> "GET",
                        href |-> merge_params(url_of(obj),
                                   <<[k |-> TokenKey, v |-> <<NextPrefix \o obj.next>>]>>)],
                       pb)
         ELSE IF obj.request.method = "POST"
         THEN IF IsObject(pb)
              THEN Produced([rel |-> "next", type |-> MimeJson, method |-> "POST",
                             href |-> url_of(obj), body |-> BodyRef],
                            SetToken(pb, NextPrefix \o obj.next))
              ELSE Produced(TypeError, pb)
         ELSE Produced(None, pb)
    ELSE Produced(None, pb)

\* link_prev that builds the POST form of the link for GET requests too
link_prev_post_form(obj, pb) ==
    IF obj.prev # NoStr /\ obj.request.method \in {"GET", "POST"}
    THEN Produced([rel |-> "previous", type |-> MimeJson, method |-> "POST",
                   href |-> url_of(obj), body |-> BodyRef],
                  SetToken(pb, PrevPrefix \o obj.prev))
    ELSE Produced(None, pb)

link_prev(obj, pb) ==
    IF obj.prev # NoStr
    THEN IF obj.request.method = "GET"
         THEN Produced([rel |-> "previous", type |-> MimeJson, method |-> "GET",
                        href |-> merge_params(url_of(obj),
                                   <<[k |-> TokenKey, v |-> <<PrevPrefix \o obj.prev>>]>>)],
                       pb)
         ELSE IF obj.request.method = "POST"
         THEN IF IsObject(pb)
              THEN Produced([rel |-> "previous", type |-> MimeJson, method |-> "POST",
                             href |-> url_of(obj), body |-> BodyRef],
                            SetToken(pb, PrevPrefix \o obj.prev))
              ELSE Produced(TypeError, pb)
         ELSE Produced(None, pb)
    ELSE Produced(None, pb)

\* CollectionLinksBase.collection_link(rel)
collection_link(obj, rel) ==
    [rel |-> rel, type |-> MimeJson,
     href |-> resolve(obj, Collections \o <<"/">> \o obj.collection_id)]

CollectionLinks_link_self(obj, pb) == Produced(collection_link(obj, "self"), pb)

CollectionLinks_link_parent(obj, pb) ==
    Produced([rel |-> "parent", type |-> MimeJson, href |-> base_url(obj)], pb)

\* link_items with a target that starts at the root of the host
link_items_rooted(obj, pb) ==
    Produced([rel |-> "items", type |-> MimeGeojson,
              href |-> resolve(obj, <<"/">> \o Collections \o <<"/">> \o obj.collection_id
                                      \o <<"/">> \o ItemsPath)], pb)

link_items(obj, pb) ==
    Produced([rel |-> "items", type |-> MimeGeojson,
              href |-> resolve(obj, Collections \o <<"/">> \o obj.collection_id
                                      \o <<"/">> \o ItemsPath)], pb)

ItemLinks_link_self(obj, pb) ==
    Produced([rel |-> "self", type |-> MimeGeojson,
              href |-> resolve(obj, Collections \o <<"/">> \o obj.collection_id
                                      \o <<"/">> \o ItemsPath \o <<"/">> \o obj.item_id)], pb)

\* link_parent with collection_link's default relation
ItemLinks_link_parent_default_rel(obj, pb) ==
    Produced(collection_link(obj, "collection"), pb)

ItemLinks_link_parent(obj, pb) == Produced(collection_link(obj, "parent"), pb)

link_collection(obj, pb) == Produced(collection_link(obj, "collection"), pb)

link_tiles(obj, pb) ==
    Produced([rel |-> "alternate", type |-> MimeJson, title |-> "tiles",
              href |-> resolve(obj, Collections \o <<"/">> \o obj.collection_id
                                      \o <<"/">> \o ItemsPath \o <<"/">> \o obj.item_id
                                      \o <<"/">> \o TilesPath)], pb)

\* dir(self): the names that start with link_, in sorted order, per class
Producers(kind) ==
    CASE kind = "BaseLinks"       -> <<"link_root", "link_self">>
      [] kind = "PagingLinks"     -> <<"link_next", "link_prev", "link_root", "link_self">>
      [] kind = "CollectionLinks" -> <<"link_items", "link_parent", "link_root", "link_self">>
      [] kind = "ItemLinks"       -> <<"link_collection", "link_parent", "link_root",
                                      "link_self", "link_tiles">>

\* getattr(self, name)(): the method the class of self binds to the name
Call(name, obj, pb) ==
    CASE name = "link_root"       -> link_root(obj, pb)
      [] name = "link_next"       -> link_next(obj, pb)
      [] name = "link_prev"       -> link_prev(obj, pb)
      [] name = "link_items"      -> link_items(obj, pb)
      [] name = "link_collection" -> link_collection(obj, pb)
      [] name = "link_tiles"      -> link_tiles(obj, pb)
      [] name = "link_self" ->
            (CASE obj.kind = "CollectionLinks" -> CollectionLinks_link_self(obj, pb)
               [] obj.kind = "ItemLinks"       -> ItemLinks_link_self(obj, pb)
               [] OTHER                        -> BaseLinks_link_self(obj, pb))
      [] name = "link_parent" ->
            (CASE obj.kind = "CollectionLinks" -> CollectionLinks_link_parent(obj, pb)
               [] OTHER                        -> ItemLinks_link_parent(obj, pb))

\* the loop of create_links: every producer's return value is appended; an
\* exception a producer raises ends the loop and leaves create_links
RECURSIVE RunProducers(_, _, _, _)
RunProducers(names, obj, pb, acc) ==
    IF Len(names) = 0 THEN [links |-> acc, postbody |-> pb, raised |-> None]
    ELSE LET r == Call(Head(names), obj, pb)
         IN  IF IsRaised(r.link)
             THEN [links |-> acc, postbody |-> r.postbody, raised |-> r.link]
             ELSE RunProducers(Tail(names), obj, r.postbody, Append(acc, r.link))

create_links(obj, pb) == RunProducers(Producers(obj.kind), obj, pb, <<>>)

\* the loop of get_links without the assignment to link["href"]
ResolvedExtras_unresolved(obj, extras) ==
    SelectSeq(extras, LAMBDA l : ~IsInferred(l.rel))

\* the loop of get_links over extra_links: the dicts that are kept, each
\* with its href resolved
RECURSIVE ResolvedExtras(_, _)
ResolvedExtras(obj, extras) ==
    IF Len(extras) = 0 THEN <<>>
    ELSE IF ~IsInferred(Head(extras).rel)
         THEN <<[Head(extras) EXCEPT !.href = resolve(obj, Head(extras).href)]>>
                \o ResolvedExtras(obj, Tail(extras))
    ELSE ResolvedExtras(obj, Tail(extras))

\* a get_links that collects the generated links in the extra_links list
\* itself instead of a list of its own
MutatedExtras_accumulating(obj, extras) ==
    extras \o SelectSeq(create_links(obj, None).links, LAMBDA l : l # None)

\* extra_links after the loop: link["href"] = ... writes into the caller's dicts
MutatedExtras(obj, extras) ==
    [i \in 1..Len(extras) |->
        IF ~IsInferred(extras[i].rel)
        THEN [extras[i] EXCEPT !.href = resolve(obj, extras[i].href)]
        ELSE extras[i]]

\* the response as serialized: every body reference read when the list is
\* returned
Deref(link, pb) ==
    IF link # None /\ "body" \in DOMAIN link /\ link.body = BodyRef
    THEN [link EXCEPT !.body = pb] ELSE link

Serialized(ls, pb) == [i \in 1..Len(ls) |-> Deref(ls[i], pb)]

----------------------------------------------------------------------------
(* Inputs of get_links.                                                    *)

BaseUrl == <<"h", "t", "t", "p", ":", "/", "/", "h", "/">>

\* the base URL of an application mounted under a path
MountedBaseUrl == BaseUrl \o <<"s", "/">>

\* request URLs: no query, a limit, a limit and the token of an earlier page
RequestUrls ==
    { BaseUrl \o <<"p">>,
      BaseUrl \o <<"p", "?", "l", "=", "1">>,
      BaseUrl \o <<"p", "?">> \o TokenKey \o <<"=">> \o NextPrefix \o <<"a">>
              \o <<"&", "l", "=", "1">> }

\* POST payloads: a first search, and the search of a later page
Payloads ==
    { [limit |-> <<"1">>],
      [limit |-> <<"1">>, token |-> NextPrefix \o <<"a">>],
      JsonArray }

Methods == {"GET", "POST", "PUT"}

Requests ==
    { [method |-> m, url |-> u, base_url |-> BaseUrl, body |-> b] :
        m \in {"GET"}, u \in RequestUrls, b \in {None} }
    \cup
    { [method |-> "PUT", url |-> BaseUrl \o <<"p">>, base_url |-> BaseUrl, body |-> None] }
    \cup
    { [method |-> "POST", url |-> BaseUrl \o <<"p">>, base_url |-> BaseUrl, body |-> b] :
        b \in Payloads }
    \cup
    { [method |-> "GET", url |-> MountedBaseUrl \o <<"p">>, base_url |-> MountedBaseUrl,
       body |-> None] }

\* a cursor with a character that is reserved in a query string
PlusCursor == <<"c", "+", "d">>

LinkObjects ==
    { [kind |-> "BaseLinks", request |-> r, next |-> NoStr, prev |-> NoStr,
       collection_id |-> NoStr, item_id |-> NoStr] : r \in Requests }
    \cup
    { [kind |-> "PagingLinks", request |-> r, next |-> n, prev |-> p,
       collection_id |-> NoStr, item_id |-> NoStr] :
        r \in Requests, n \in {NoStr, <<"a">>, PlusCursor}, p \in {NoStr, <<"b">>} }
    \cup
    { [kind |-> "CollectionLinks", request |-> r, next |-> NoStr, prev |-> NoStr,
       collection_id |-> <<"n">>, item_id |-> NoStr] : r \in Requests }
    \cup
    { [kind |-> "ItemLinks", request |-> r, next |-> NoStr, prev |-> NoStr,
       collection_id |-> <<"n">>, item_id |-> <<"i">>] : r \in Requests }

\* persisted links: one of each inferred relation, with the absolute href
\* of another deployment, and a license link with an absolute or a relative href
StaleHref == <<"h", "t", "t", "p", ":", "/", "/", "o", "/", "x">>

LinkPool ==
    { [rel |-> r, type |-> MimeJson, href |-> StaleHref] :
        r \in {"self", "item", "parent", "collection", "root", "license"} }
    \cup { [rel |-> "license", type |-> MimeJson, href |-> <<"d">>] }

RECURSIVE LinkLists(_)
LinkLists(n) ==
    IF n = 0 THEN {<<>>}
    ELSE LET shorter == LinkLists(n - 1)
         IN  shorter \cup {<<l>> \o ls : l \in LinkPool, ls \in {x \in shorter : Len(x) = n - 1}}

ExtraLists == LinkLists(MaxExtra)

\* the links passed with a page of search results, which stores none of
\* its own: shorter lists
PagingExtraLists == LinkLists(MaxExtra - 1)

----------------------------------------------------------------------------
(* get_links as a machine.  The await of request.json() is the one place   *)
(* the coroutine can be suspended, so a POST call takes two steps.         *)

LInit ==
    /\ self \in LinkObjects
    /\ raw_links \in IF self.kind = "PagingLinks" THEN PagingExtraLists ELSE ExtraLists
    /\ filtered = FALSE
    /\ extra_links = raw_links
    /\ postbody = None
    /\ pc = "ready"
    /\ links = <<>>
    /\ calls = 0
    /\ reads = 0

\* the link machine at rest, for the specifications that do not run it
LIdle ==
    /\ self = None
    /\ raw_links = <<>>
    /\ filtered = FALSE
    /\ extra_links = <<>>
    /\ postbody = None
    /\ pc = "off"
    /\ links = <<>>
    /\ calls = 0
    /\ reads = 0

\* links are scrubbed with filter_links before they are persisted; what is
\* read back is then the extra_links argument
FilterLinks ==
    /\ pc = "ready"
    /\ calls = 0
    /\ ~filtered
    /\ filtered' = TRUE
    /\ extra_links' = filter_links(raw_links)
    /\ UNCHANGED <<self, raw_links, postbody, pc, links, calls, reads>>

\* get_links from line 85 on, with request.postbody being pb: the list is
\* returned, or the exception of a producer leaves get_links and no list is
\* returned
Finish(pb) ==
    LET made == create_links(self, pb)
    IN  IF made.raised # None
        THEN /\ links' = <<>>
             /\ pc' = "raised"
             /\ postbody' = made.postbody
             /\ calls' = calls + 1
             /\ UNCHANGED extra_links
        ELSE /\ links' = made.links \o ResolvedExtras(self, extra_links)
             /\ extra_links' = MutatedExtras(self, extra_links)
             /\ postbody' = made.postbody
             /\ pc' = "returned"
             /\ calls' = calls + 1

\* get_links is called: up to the await for a POST, to the end otherwise
GetLinks ==
    /\ pc \in {"ready", "returned"}
    /\ calls < MaxCalls
    /\ IF self.request.method = "POST"
       THEN /\ pc' = "await_json"
            /\ UNCHANGED <<extra_links, postbody, links, calls>>
       ELSE Finish(postbody)
    /\ UNCHANGED <<self, raw_links, filtered, reads>>

\* request.json() that reads and parses the body on every call
request_json_uncached(rq, cache, n) == [json |-> rq.body, reads |-> n + 1]

\* request.json(): the first call reads the body from the transport and
\* parses it; the request keeps the parsed object and every later call
\* returns that object.  n counts the reads of the transport.
request_json(rq, cache, n) ==
    IF cache = None THEN [json |-> rq.body, reads |-> n + 1]
    ELSE [json |-> cache, reads |-> n]

\* request.json() completes and get_links runs to its end.  The object the
\* request keeps is the one request.postbody was bound to by the call before.
JsonRead ==
    /\ pc = "await_json"
    /\ Finish(request_json(self.request, postbody, reads).json)
    /\ reads' = request_json(self.request, postbody, reads).reads
    /\ UNCHANGED <<self, raw_links, filtered>>

MIdle ==
    /\ m_pc = "off"
    /\ m_url = <<>>
    /\ m_new = <<>>
    /\ m_href = <<>>
    /\ m_href2 = <<>>

----------------------------------------------------------------------------
(* get_links for two requests handled at the same time.  Each handler has  *)
(* its own Request and its own links object; both call get_links without   *)
(* an extra_links argument, so both are handed the one list object that is *)
(* the default of the parameter.  A handler gives up control only at the   *)
(* await of request.json(); every other step of get_links runs unbroken.   *)

Handlers == 1..2

\* the links objects of the handlers: paging links with a next cursor
PairObjects == {o \in LinkObjects : o.kind = "PagingLinks" /\ o.next # NoStr}

PInit ==
    /\ c_self \in [Handlers -> PairObjects]
    /\ c_pc = [h \in Handlers |-> "ready"]
    /\ c_postbody = [h \in Handlers |-> None]
    /\ c_links = [h \in Handlers |-> <<>>]
    /\ c_calls = [h \in Handlers |-> 0]
    /\ c_default = <<>>
    /\ c_overlap = FALSE

\* the handlers at rest, for the specifications that do not run them
PIdle ==
    /\ c_self = [h \in Handlers |-> None]
    /\ c_pc = [h \in Handlers |-> "off"]
    /\ c_postbody = [h \in Handlers |-> None]
    /\ c_links = [h \in Handlers |-> <<>>]
    /\ c_calls = [h \in Handlers |-> 0]
    /\ c_default = <<>>
    /\ c_overlap = FALSE

\* get_links of handler h from line 85 on, with its request.postbody being
\* pb and extra_links being the default list
PairFinish(h, pb) ==
    LET made == create_links(c_self[h], pb)
    IN  IF made.raised # None
        THEN /\ c_links' = [c_links EXCEPT ![h] = <<>>]
             /\ c_pc' = [c_pc EXCEPT ![h] = "raised"]
             /\ c_postbody' = [c_postbody EXCEPT ![h] = made.postbody]
             /\ c_calls' = [c_calls EXCEPT ![h] = @ + 1]
             /\ UNCHANGED c_default
        ELSE /\ c_links' = [c_links EXCEPT
                               ![h] = made.links \o ResolvedExtras(c_self[h], c_default)]
             /\ c_default' = MutatedExtras(c_self[h], c_default)
             /\ c_postbody' = [c_postbody EXCEPT ![h] = made.postbody]
             /\ c_pc' = [c_pc EXCEPT ![h] = "returned"]
             /\ c_calls' = [c_calls EXCEPT ![h] = @ + 1]

\* handler h calls get_links: up to the await for a POST, where the other
\* handler may run, to the end otherwise
PairGetLinks(h) ==
    /\ c_pc[h] \in {"ready", "returned"}
    /\ c_calls[h] < MaxCalls
    /\ IF c_self[h].request.method = "POST"
       THEN /\ c_pc' = [c_pc EXCEPT ![h] = "await_json"]
            /\ c_overlap' = (c_overlap \/ \E g \in Handlers \ {h} : c_pc[g] = "await_json")
            /\ UNCHANGED <<c_postbody, c_links, c_calls, c_default>>
       ELSE /\ PairFinish(h, c_postbody[h])
            /\ UNCHANGED c_overlap
    /\ UNCHANGED c_self

\* request.json() of handler h completes and its get_links runs to its end
PairJsonRead(h) ==
    /\ c_pc[h] = "await_json"
    /\ PairFinish(h, request_json(c_self[h].request, c_postbody[h], 0).json)
    /\ UNCHANGED <<c_self, c_overlap>>

----------------------------------------------------------------------------
(* models/links.py: TileLinks.  The class is built by attr.s, whose         *)
(* generated __init__ sets the declared attributes and then calls           *)
(* __attrs_post_init__ when the class defines one.  TileLinks defines       *)
(* __post_init__, which nothing calls.                                      *)

TitilerTiles ==
    <<"t", "i", "t", "i", "l", "e", "r", "/", "t", "i", "l", "e", "s",
      "/", "{", "z", "}", "/", "{", "x", "}", "/", "{", "y", "}", ".",
      "p", "n", "g", "?", "u", "r", "l", "=">>
TitilerViewer ==
    <<"t", "i", "t", "i", "l", "e", "r", "/", "v", "i", "e", "w", "e",
      "r", "?", "u", "r", "l", "=">>
TitilerTilejson ==
    <<"t", "i", "t", "i", "l", "e", "r", "/", "t", "i", "l", "e", "j",
      "s", "o", "n", ".", "j", "s", "o", "n", "?", "u", "r", "l", "=">>
TitilerWmts ==
    <<"t", "i", "t", "i", "l", "e", "r", "/", "W", "M", "T", "S", "C",
      "a", "p", "a", "b", "i", "l", "i", "t", "i", "e", "s", ".", "x",
      "m", "l", "?", "u", "r", "l", "=">>

\* the object attrs' __init__ leaves: the three declared attributes
TileLinks(base, collection_id, item_id) ==
    [base_url |-> base, collection_id |-> collection_id, item_id |-> item_id]

\* TileLinks.__post_init__, were it called: the object with item_uri set
TileLinks_post_init(obj) ==
    [f \in (DOMAIN obj) \cup {"item_uri"} |->
        IF f = "item_uri"
        THEN urljoin(obj.base_url, Collections \o <<"/">> \o obj.collection_id
                                     \o <<"/">> \o ItemsPath \o <<"/">> \o obj.item_id)
        ELSE obj[f]]

\* reading an attribute the object does not have
AttributeError == [raised |-> "AttributeError"]

TileLinks_link_tiles(obj) ==
    IF "item_uri" \notin DOMAIN obj THEN AttributeError
    ELSE [href |-> urljoin(obj.base_url, TitilerTiles \o obj.item_uri),
          rel |-> "item", title |-> "tiles", type |-> "image/png", templated |-> TRUE]

link_viewer(obj) ==
    IF "item_uri" \notin DOMAIN obj THEN AttributeError
    ELSE [href |-> urljoin(obj.base_url, TitilerViewer \o obj.item_uri),
          rel |-> "alternate", type |-> "text/html", title |-> "viewer"]

link_tilejson(obj) ==
    IF "item_uri" \notin DOMAIN obj THEN AttributeError
    ELSE [href |-> urljoin(obj.base_url, TitilerTilejson \o obj.item_uri),
          rel |-> "alternate", type |-> MimeJson, title |-> "tilejson"]

link_wmts(obj) ==
    IF "item_uri" \notin DOMAIN obj THEN AttributeError
    ELSE [href |-> urljoin(obj.base_url, TitilerWmts \o obj.item_uri),
          rel |-> "alternate", type |-> "application/xml",
          title |-> "WMTS Capabilities", templated |-> FALSE]

\* the arguments of the constructor
TileArgs ==
    { [base_url |-> b, collection_id |-> c, item_id |-> i] :
        b \in {BaseUrl, MountedBaseUrl}, c \in {<<"n">>, <<"m">>}, i \in {<<"i">>, <<"j">>} }

NotCalled == [tiles |-> None, viewer |-> None, tilejson |-> None, wmts |-> None]

TInit ==
    /\ t_pc = "new"
    /\ t_args \in TileArgs
    /\ t_obj = None
    /\ t_out = NotCalled

TIdle ==
    /\ t_pc = "off"
    /\ t_args = None
    /\ t_obj = None
    /\ t_out = NotCalled

\* TileLinks(base_url=..., collection_id=..., item_id=...)
Construct ==
    /\ t_pc = "new"
    /\ t_obj' = TileLinks(t_args.base_url, t_args.collection_id, t_args.item_id)
    /\ t_pc' = "built"
    /\ UNCHANGED <<t_args, t_out>>

CallLinkTiles ==
    /\ t_pc = "built"
    /\ t_out.tiles = None
    /\ t_out' = [t_out EXCEPT !.tiles = TileLinks_link_tiles(t_obj)]
    /\ UNCHANGED <<t_pc, t_args, t_obj>>

CallLinkViewer ==
    /\ t_pc = "built"
    /\ t_out.viewer = None
    /\ t_out' = [t_out EXCEPT !.viewer = link_viewer(t_obj)]
    /\ UNCHANGED <<t_pc, t_args, t_obj>>

CallLinkTilejson ==
    /\ t_pc = "built"
    /\ t_out.tilejson = None
    /\ t_out' = [t_out EXCEPT !.tilejson = link_tilejson(t_obj)]
    /\ UNCHANGED <<t_pc, t_args, t_obj>>

CallLinkWmts ==
    /\ t_pc = "built"
    /\ t_out.wmts = None
    /\ t_out' = [t_out EXCEPT !.wmts = link_wmts(t_obj)]
    /\ UNCHANGED <<t_pc, t_args, t_obj>>

----------------------------------------------------------------------------
(* Paging through a result set.  The search of the data store and the      *)
(* request handler that calls PagingLinks are not part of models/links.py; *)
(* they are modelled from the specification: the store returns an ordered  *)
(* page and the cursors of its two ends, a cursor being the id of the item *)
(* at that end.                                                            *)

LimitKey == <<"l", "i", "m", "i", "t">>
SearchUrl == BaseUrl \o <<"s", "e", "a", "r", "c", "h">>

\* item ids, in the order the store serves them
IdChars == <<"r", "s", "u", "v", "w", "y", "z">>
Items(n) == [i \in 1..n |-> <<IdChars[i]>>]

\* a limit as text and back
Digits == <<"1", "2", "3", "4", "5">>
LimitText(n) == <<Digits[n]>>
LimitValue(t) == CHOOSE n \in 1..Len(Digits) : <<Digits[n]>> = t

StartsWith(s, p) == Len(s) >= Len(p) /\ SubSeq(s, 1, Len(p)) = p

\* the position of the item a cursor names, 0 when it names none
PositionOf(items, cursor) ==
    IF \E i \in 1..Len(items) : items[i] = cursor
    THEN CHOOSE i \in 1..Len(items) : items[i] = cursor
    ELSE 0

\* the page items[first..last] with the cursors of its ends
PageOf(items, first, last) ==
    IF first > last
    THEN [ok |-> TRUE, ids |-> <<>>, next |-> NoStr, prev |-> NoStr]
    ELSE [ok |-> TRUE, ids |-> SubSeq(items, first, last),
          next |-> IF last < Len(items) THEN items[last] ELSE NoStr,
          prev |-> IF first > 1 THEN items[first] ELSE NoStr]

NoPage == [ok |-> FALSE, ids |-> <<>>, next |-> NoStr, prev |-> NoStr]

PageAfter(items, i, limit) ==
    IF i = 0 THEN NoPage
    ELSE PageOf(items, i + 1, IF i + limit < Len(items) THEN i + limit ELSE Len(items))

PageBefore(items, i, limit) ==
    IF i = 0 THEN NoPage
    ELSE PageOf(items, IF i - limit > 1 THEN i - limit ELSE 1, i - 1)

\* search(fingerprint, cursor?, limit)
Search(items, token, limit) ==
    IF token = NoStr
    THEN PageOf(items, 1, IF limit < Len(items) THEN limit ELSE Len(items))
    ELSE IF StartsWith(token, NextPrefix)
    THEN PageAfter(items, PositionOf(items, From(token, Len(NextPrefix) + 1)), limit)
    ELSE IF StartsWith(token, PrevPrefix)
    THEN PageBefore(items, PositionOf(items, From(token, Len(PrevPrefix) + 1)), limit)
    ELSE NoPage

\* the last value of a query parameter, NoStr when it is not given
ParamOf(d, key) ==
    IF key \in Keys(d) THEN d[Get(d, key)].v[Len(d[Get(d, key)].v)] ELSE NoStr

QueryParam(url, key) == ParamOf(parse_qs(urlparse(url).query), key)

\* the token and the limit of a request: query parameters of a GET, fields
\* of the payload of a POST
TokenOf(rq) ==
    IF rq.method = "GET" THEN QueryParam(rq.url, TokenKey)
    ELSE IF "token" \in DOMAIN rq.body THEN rq.body.token ELSE NoStr

LimitOf(rq) ==
    IF rq.method = "GET" THEN LimitValue(QueryParam(rq.url, LimitKey))
    ELSE LimitValue(rq.body.limit)

\* PagingLinks(request=request, next=next, prev=prev)
PagingLinksFor(rq, found) ==
    [kind |-> "PagingLinks", request |-> rq, next |-> found.next, prev |-> found.prev,
     collection_id |-> NoStr, item_id |-> NoStr]

\* get_links() run to its end, and the list as the response carries it
LinksOf(made) == Serialized(made.links, made.postbody)

get_links(obj) ==
    LinksOf(create_links(obj, IF obj.request.method = "POST" THEN obj.request.body ELSE None))

\* the response to a search request: the page and its links
Respond(rq, found) ==
    [ok |-> found.ok, ids |-> found.ids,
     links |-> IF found.ok THEN get_links(PagingLinksFor(rq, found)) ELSE <<>>]

Handle(rq, items) == Respond(rq, Search(items, TokenOf(rq), LimitOf(rq)))

\* the links of a page with the given relation
LinksWithRel(page, rel) ==
    SelectSeq(page.links, LAMBDA l : l # None /\ l.rel = rel)

HasLink(page, rel) == Len(LinksWithRel(page, rel)) > 0

\* request_body.update(link["body"])
UpdateBody(body, other) ==
    [f \in (DOMAIN body) \cup (DOMAIN other) |->
        IF f \in DOMAIN other THEN other[f] ELSE body[f]]

\* the request that follows a link: a GET of its href, or a POST of the
\* request body updated with its body
RequestFor(rq, link) ==
    IF rq.method = "GET" THEN [rq EXCEPT !.url = link.href]
    ELSE [rq EXCEPT !.body = UpdateBody(rq.body, link.body)]

\* the first request of a client: a search, or a search resumed from the
\* token of a page it was given earlier
FirstRequest(method, limit, token) ==
    IF method = "GET"
    THEN [method |-> "GET", base_url |-> BaseUrl, body |-> None,
          url |-> SearchUrl \o <<"?">> \o LimitKey \o <<"=">> \o LimitText(limit)
                    \o (IF token = NoStr THEN <<>>
                        ELSE <<"&">> \o TokenKey \o <<"=">> \o token)]
    ELSE [method |-> "POST", base_url |-> BaseUrl, url |-> SearchUrl,
          body |-> IF token = NoStr THEN [limit |-> LimitText(limit)]
                   ELSE [limit |-> LimitText(limit), token |-> token]]

\* the tokens a client can hold: none, or the next token of a page that is
\* not the last
StartTokens(items) ==
    {NoStr} \cup {NextPrefix \o items[i] : i \in 1..(Len(items) - 1)}

WInit ==
    /\ w_pc = "start"
    /\ w_items \in {Items(n) : n \in 1..MaxItems}
    /\ w_req \in {FirstRequest(m, l, t) :
                    m \in {"GET", "POST"}, l \in 1..MaxLimit, t \in StartTokens(w_items)}
    /\ w_first = TokenOf(w_req)
    /\ w_page = NoPage
    /\ w_trail = <<>>
    /\ w_moves = <<>>

WIdle ==
    /\ w_pc = "off"
    /\ w_items = <<>>
    /\ w_req = None
    /\ w_first = NoStr
    /\ w_page = NoPage
    /\ w_trail = <<>>
    /\ w_moves = <<>>

\* the first request is sent and answered
FirstPage ==
    /\ w_pc = "start"
    /\ w_page' = Handle(w_req, w_items)
    /\ w_trail' = <<w_page'.ids>>
    /\ w_pc' = "paging"
    /\ UNCHANGED <<w_items, w_req, w_first, w_moves>>

\* the client follows the link of the given relation of the page it holds
Follow(rel, move) ==
    /\ w_pc = "paging"
    /\ Len(w_moves) < MaxMoves
    /\ HasLink(w_page, rel)
    /\ w_req' = RequestFor(w_req, LinksWithRel(w_page, rel)[1])
    /\ w_page' = Handle(w_req', w_items)
    /\ w_trail' = Append(w_trail, w_page'.ids)
    /\ w_moves' = Append(w_moves, move)
    /\ UNCHANGED <<w_pc, w_items, w_first>>

FollowNext == Follow("next", "next")

FollowPrev == Follow("previous", "prev")

WNext ==
    \/ FirstPage /\ UNCHANGED mvars /\ UNCHANGED lvars /\ UNCHANGED tvars /\ UNCHANGED cvars
    \/ FollowNext /\ UNCHANGED mvars /\ UNCHANGED lvars /\ UNCHANGED tvars /\ UNCHANGED cvars
    \/ FollowPrev /\ UNCHANGED mvars /\ UNCHANGED lvars /\ UNCHANGED tvars /\ UNCHANGED cvars

WalkInit == WInit /\ MIdle /\ LIdle /\ TIdle /\ PIdle

SpecWalk == WalkInit /\ [][WNext]_vars

Init == LInit /\ MIdle /\ WIdle /\ TIdle /\ PIdle

Next ==
    \/ FilterLinks /\ UNCHANGED mvars /\ UNCHANGED wvars /\ UNCHANGED tvars /\ UNCHANGED cvars
    \/ GetLinks /\ UNCHANGED mvars /\ UNCHANGED wvars /\ UNCHANGED tvars /\ UNCHANGED cvars
    \/ JsonRead /\ UNCHANGED mvars /\ UNCHANGED wvars /\ UNCHANGED tvars /\ UNCHANGED cvars

TilesInit == TInit /\ MIdle /\ LIdle /\ WIdle /\ PIdle

TNext ==
    \/ Construct /\ UNCHANGED mvars /\ UNCHANGED lvars /\ UNCHANGED wvars /\ UNCHANGED cvars
    \/ CallLinkTiles /\ UNCHANGED mvars /\ UNCHANGED lvars /\ UNCHANGED wvars /\ UNCHANGED cvars
    \/ CallLinkViewer /\ UNCHANGED mvars /\ UNCHANGED lvars /\ UNCHANGED wvars /\ UNCHANGED cvars
    \/ CallLinkTilejson /\ UNCHANGED mvars /\ UNCHANGED lvars /\ UNCHANGED wvars /\ UNCHANGED cvars
    \/ CallLinkWmts /\ UNCHANGED mvars /\ UNCHANGED lvars /\ UNCHANGED wvars /\ UNCHANGED cvars

SpecTiles == TilesInit /\ [][TNext]_vars

PairInit == PInit /\ MIdle /\ LIdle /\ WIdle /\ TIdle

PNext ==
    \/ (\E h \in Handlers : PairGetLinks(h))
            /\ UNCHANGED mvars /\ UNCHANGED lvars /\ UNCHANGED wvars /\ UNCHANGED tvars
    \/ (\E h \in Handlers : PairJsonRead(h))
            /\ UNCHANGED mvars /\ UNCHANGED lvars /\ UNCHANGED wvars /\ UNCHANGED tvars

SpecPair == PairInit /\ [][PNext]_vars

Spec == Init /\ [][Next]_vars

----------------------------------------------------------------------------
(* Inputs of the query merger.                                             *)

UrlHead == <<"h", "t", "t", "p", ":", "/", "/", "h", "/", "p">>


\* the fields input query strings are made of
Fields ==
    { <<"l", "=", "3">>,                              \* limit=3
      <<"b", "=", "1", ",", "2">>,                    \* bbox=1,2
      <<"q", "=", "x", "%", "2", "6", "y">>,          \* q=x%26y: an escaped '&'
      <<"q", "=", "x", "%", "2", "5", "2", "6", "y">>,\* q=x%2526y
      <<"q", "=", "x", "+", "y">>,                    \* q=x+y: a space
      <<"q", "=", "z">>,                              \* a repeated key
      <<"f", "=">>,                                   \* a blank value
      <<"g">>,                                        \* a key only
      TokenKey \o <<"=">> \o PrevPrefix \o <<"c">> }  \* token=prev:c

RECURSIVE QueriesOf(_)
QueriesOf(n) ==
    IF n = 0 THEN {<<>>}
    ELSE LET shorter == QueriesOf(n - 1)
         IN  shorter \cup {<<f>> \o fs : f \in Fields, fs \in {x \in shorter : Len(x) = n - 1}}

\* the request URLs: with no query, with an empty query, with 1..MaxPairs fields
Urls ==
    {UrlHead} \cup
    { UrlHead \o <<"?">> \o Join(fs, "&") \o fr :
        fs \in QueriesOf(MaxPairs), fr \in {<<>>, <<"#", "a">>} }

\* the new parameters: none, a token (plain, or with reserved characters
\* in its cursor), another key
NewParams ==
    { <<>>,
      <<[k |-> TokenKey, v |-> <<NextPrefix \o <<"c">>>>]>>,
      <<[k |-> TokenKey, v |-> <<NextPrefix \o <<"c", "&", "l", "=", "1">>>>]>>,
      <<[k |-> TokenKey, v |-> <<NextPrefix \o <<"c", "+", "d">>>>]>>,
      <<[k |-> TokenKey, v |-> <<NextPrefix \o <<"c", "%", "2", "6">>>>]>>,
      <<[k |-> <<"l">>, v |-> <<<<"5">>>>]>> }

----------------------------------------------------------------------------
(* The query merger as a machine: the inputs are drawn, then merged once,  *)
(* then the result is merged again with the same parameters.               *)

MInit ==
    /\ m_pc = "in"
    /\ m_url \in Urls
    /\ m_new \in NewParams
    /\ m_href = <<>>
    /\ m_href2 = <<>>
    /\ LIdle
    /\ WIdle
    /\ TIdle
    /\ PIdle

MergeOnce ==
    /\ m_pc = "in"
    /\ m_href' = merge_params(m_url, m_new)
    /\ m_pc' = "once"
    /\ UNCHANGED <<m_url, m_new, m_href2>>
    /\ UNCHANGED lvars
    /\ UNCHANGED wvars
    /\ UNCHANGED tvars /\ UNCHANGED cvars

MergeTwice ==
    /\ m_pc = "once"
    /\ m_href2' = merge_params(m_href, m_new)
    /\ m_pc' = "twice"
    /\ UNCHANGED <<m_url, m_new, m_href>>
    /\ UNCHANGED lvars
    /\ UNCHANGED wvars
    /\ UNCHANGED tvars /\ UNCHANGED cvars

MNext == MergeOnce \/ MergeTwice

SpecMerge == MInit /\ [][MNext]_vars

----------------------------------------------------------------------------
(* Properties.                                                             *)

\* the inferred relations, as the specification lists them
InferredRels == {"self", "item", "parent", "collection", "root"}

\* the links of ls whose relation is not inferred, in order
NonInferred(ls) == SelectSeq(ls, LAMBDA l : l.rel \notin InferredRels)

\* the links get_links returned that create_links generated, and the rest
Generated == SubSeq(links, 1, Len(Producers(self.kind)))
Passed == SubSeq(links, Len(Producers(self.kind)) + 1, Len(links))

\* C1: cursor symmetry.  Over unchanged data, following the next link of a
\* page P and then the previous link of the page so obtained returns the
\* items of P in the original order.
C1_CursorSymmetry ==
    \A k \in 1..(Len(w_moves) - 1) :
        (w_moves[k] = "next" /\ w_moves[k + 1] = "prev") => w_trail[k + 2] = w_trail[k]

\* C2: on a POST request with both cursors, the returned link set has a
\* next link whose body is the payload with token next:N and a previous link
\* whose body is the payload with token prev:P, both with the request URL as
\* href, as the bodies read when the list is returned.
C2_PostBodiesDistinct ==
    (/\ pc = "returned"
     /\ self.kind = "PagingLinks"
     /\ self.request.method = "POST"
     /\ self.next # NoStr
     /\ self.prev # NoStr)
    => /\ \E i \in 1..Len(links) :
            /\ links[i] # None
            /\ links[i].rel = "next"
            /\ links[i].href = self.request.url
            /\ Deref(links[i], postbody).body
                 = SetToken(self.request.body, NextPrefix \o self.next)
       /\ \E i \in 1..Len(links) :
            /\ links[i] # None
            /\ links[i].rel = "previous"
            /\ links[i].href = self.request.url
            /\ Deref(links[i], postbody).body
                 = SetToken(self.request.body, PrevPrefix \o self.prev)

\* C3: a walk from the first page with limit 1 that only follows next links
\* fetches exactly as many pages as there are stored items before a page
\* without a next link is reached, and every item returned is a stored one.
C3_WalkCoversAll ==
    (/\ w_pc = "paging"
     /\ w_first = NoStr
     /\ LimitOf(w_req) = 1
     /\ \A k \in 1..Len(w_moves) : w_moves[k] = "next")
    => /\ Len(w_trail) <= Len(w_items)
       /\ ~HasLink(w_page, "next") => Len(w_trail) = Len(w_items)
       /\ \A k \in 1..Len(w_trail) : \A j \in 1..Len(w_trail[k]) :
            \E i \in 1..Len(w_items) : w_items[i] = w_trail[k][j]

\* C5: boundary behaviour.  With no next cursor the returned link set has
\* no link of relation next, and with no prev cursor none of relation
\* previous.
C5_NoLinkWithoutCursor ==
    pc = "returned" =>
        /\ self.next = NoStr =>
              \A i \in 1..Len(links) : links[i] # None => links[i].rel # "next"
        /\ self.prev = NoStr =>
              \A i \in 1..Len(links) : links[i] # None => links[i].rel # "previous"

\* a last page was served: it has a previous link and no next cursor
C5_Witness ==
    /\ pc = "returned"
    /\ self.kind = "PagingLinks"
    /\ self.request.method = "GET"
    /\ self.next = NoStr
    /\ self.prev # NoStr
    /\ \E i \in 1..Len(links) : links[i] # None /\ links[i].rel = "previous"

\* C6: the list get_links returns never holds a null entry; a producer
\* that declines contributes nothing.
C6_NoNullEntry ==
    pc = "returned" => \A i \in 1..Len(links) : links[i] # None

\* C7: no supplied link of an inferred relation reaches the output:
\* filter_links returns exactly the links whose relation is not inferred, in
\* their order, and get_links passes on exactly those of extra_links.
C7_InferredNeverPassed ==
    /\ (filtered /\ calls = 0) => extra_links = NonInferred(raw_links)
    /\ pc = "returned" =>
          /\ Len(Passed) = Len(NonInferred(raw_links))
          /\ \A i \in 1..Len(Passed) :
                /\ Passed[i].rel \notin InferredRels
                /\ Passed[i].rel = NonInferred(raw_links)[i].rel

\* get_links was given a root link and a license link, unfiltered
C7_Witness ==
    /\ pc = "returned"
    /\ ~filtered
    /\ Len(raw_links) = 2
    /\ raw_links[1].rel = "root"
    /\ raw_links[2].rel = "license"
    /\ Len(Passed) = 1

\* the relations each class has a producer for
GeneratesRel(kind, rel) ==
    \/ rel \in {"self", "root"}
    \/ rel = "parent" /\ kind \in {"CollectionLinks", "ItemLinks"}
    \/ rel = "collection" /\ kind = "ItemLinks"

ValuesOf(d, key) == IF key \in Keys(d) THEN d[Get(d, key)].v ELSE <<>>

\* C9: query-merge non-destructiveness.  The merged URL's query still holds
\* every key of the original query that is not a key of new_params, with all
\* of its values, and scheme, host, path and fragment are unchanged.
C9_MergeKeepsOtherKeys ==
    m_pc \in {"once", "twice"} =>
        /\ \A key \in Keys(parse_qs(urlparse(m_url).query)) \ Keys(m_new) :
              ValuesOf(parse_qs(urlparse(m_href).query), key)
                = ValuesOf(parse_qs(urlparse(m_url).query), key)
        /\ urlparse(m_href).scheme = urlparse(m_url).scheme
        /\ urlparse(m_href).netloc = urlparse(m_url).netloc
        /\ urlparse(m_href).path = urlparse(m_url).path
        /\ urlparse(m_href).fragment = urlparse(m_url).fragment

\* C10: query-merge stability.  Merging the same parameters into the merged
\* URL again gives the same URL.
C10_MergeStable ==
    m_pc = "twice" => m_href2 = m_href

\* C11: determinism.  For a fixed request and fixed extra_links, every
\* further call of get_links on the same object returns the same ordered
\* link sequence (relations, hrefs, methods and bodies) as the call before
\* it, hence as the first call.
C11_RepeatedCallsAgree ==
    [][(calls >= 1 /\ calls' = calls + 1)
          => Serialized(links', postbody') = Serialized(links, postbody)]_vars

\* get_links was called again on a POST paging request that has both
\* cursors and a stored link with a relative href
C11_Witness ==
    /\ pc = "returned"
    /\ calls >= 2
    /\ self.kind = "PagingLinks"
    /\ self.request.method = "POST"
    /\ self.next # NoStr
    /\ self.prev # NoStr
    /\ \E i \in 1..Len(raw_links) : raw_links[i].href = <<"d">>

\* the relation of the link a move follows
RelOf(move) == IF move = "next" THEN "next" ELSE "previous"

\* the pages a client is served from request rq on, when it makes the given
\* moves from the page it holds; the walk ends where a link is missing
RECURSIVE WalkPages(_, _, _, _)
WalkSent(rq, items, moves) ==
    <<Handle(rq, items)>> \o WalkPages(rq, Handle(rq, items), items, moves)

WalkPages(rq, page, items, moves) ==
    IF Len(moves) = 0 \/ ~HasLink(page, RelOf(Head(moves))) THEN <<>>
    ELSE WalkSent(RequestFor(rq, LinksWithRel(page, RelOf(Head(moves)))[1]),
                  items, Tail(moves))

\* the walk of a client that starts with the given verb
WalkOf(method, items, limit, token, moves) ==
    WalkSent(FirstRequest(method, limit, token), items, moves)

\* the set of ids of a page, and the token its link of a relation carries
IdSet(page) == {page.ids[i] : i \in 1..Len(page.ids)}

CarriedToken(page, rel) ==
    IF ~HasLink(page, rel) THEN NoStr
    ELSE IF "body" \in DOMAIN LinksWithRel(page, rel)[1]
    THEN LinksWithRel(page, rel)[1].body.token
    ELSE QueryParam(LinksWithRel(page, rel)[1].href, TokenKey)

\* the GET walk and the POST walk of the client's search and moves
GetWalk == WalkOf("GET", w_items, LimitOf(w_req), w_first, w_moves)
PostWalk == WalkOf("POST", w_items, LimitOf(w_req), w_first, w_moves)

\* C12: POST/GET symmetry.  For the same search over unchanged data, the
\* walk via GET and the walk via POST by the same moves serve as many
\* pages, with equal sets of item ids at each page, and the next and the
\* previous link of corresponding pages carry the same token string.
C12_VerbsAgree ==
    w_pc = "paging" =>
        /\ Len(GetWalk) = Len(PostWalk)
        /\ \A k \in 1..Len(GetWalk) :
              k <= Len(PostWalk) =>
                /\ IdSet(GetWalk[k]) = IdSet(PostWalk[k])
                /\ CarriedToken(GetWalk[k], "next") = CarriedToken(PostWalk[k], "next")
                /\ CarriedToken(GetWalk[k], "previous")
                     = CarriedToken(PostWalk[k], "previous")

\* the closed enumeration of relations
KnownRelations ==
    {"self", "root", "parent", "collection", "item", "items", "next", "previous",
     "alternate"}

PagingRels == {"next", "previous"}

\* C13 as stated: every generated link has a non-empty href and a relation
\* of the enumeration, and method and body occur only on next/previous
\* links built for a POST request; a link built for a GET request has
\* neither.
C13_MethodOnlyOnPost ==
    pc = "returned" =>
        \A i \in 1..Len(Generated) :
            Generated[i] # None =>
                /\ Generated[i].href # <<>>
                /\ Generated[i].rel \in KnownRelations
                /\ ("method" \in DOMAIN Generated[i] \/ "body" \in DOMAIN Generated[i])
                     => (Generated[i].rel \in PagingRels /\ self.request.method = "POST")

\* C13 as amended: every generated link has a non-empty href and a relation
\* of the enumeration; method occurs exactly on the next/previous links and
\* is the method of the request (GET or POST); body occurs exactly on the
\* next/previous links built for a POST request.
C13_MethodOnPagingLinks ==
    pc = "returned" =>
        \A i \in 1..Len(Generated) :
            Generated[i] # None =>
                /\ Generated[i].href # <<>>
                /\ Generated[i].rel \in KnownRelations
                /\ "method" \in DOMAIN Generated[i] <=> Generated[i].rel \in PagingRels
                /\ "method" \in DOMAIN Generated[i]
                     => Generated[i].method = self.request.method
                /\ "body" \in DOMAIN Generated[i]
                     <=> (Generated[i].rel \in PagingRels /\ self.request.method = "POST")

\* a GET paging request with both cursors was answered: its next and
\* previous links carry a method
C13_Witness ==
    /\ pc = "returned"
    /\ self.kind = "PagingLinks"
    /\ self.request.method = "GET"
    /\ \E i \in 1..Len(Generated) :
          Generated[i] # None /\ Generated[i].rel = "next" /\ "method" \in DOMAIN Generated[i]
    /\ \E i \in 1..Len(Generated) :
          Generated[i] # None /\ Generated[i].rel = "previous"

LinkOfRel(rel) ==
    Generated[CHOOSE i \in 1..Len(Generated) : Generated[i] # None /\ Generated[i].rel = rel]

HasRel(rel) == \E i \in 1..Len(Generated) : Generated[i] # None /\ Generated[i].rel = rel

\* the templates, as text: the base URL ends with "/"
CollectionHref(obj) == obj.request.base_url \o Collections \o <<"/">> \o obj.collection_id
ItemHref(obj) == CollectionHref(obj) \o <<"/">> \o ItemsPath \o <<"/">> \o obj.item_id

\* C15: the inferred links follow the fixed templates.  For a collection:
\* self is {base}collections/{collection_id}, parent is {base}, items is
\* {base}collections/{collection_id}/items.  For an item: self is
\* {base}collections/{collection_id}/items/{item_id}, parent and collection
\* are both {base}collections/{collection_id}, and the alternate link
\* titled tiles is the item's self href followed by /tiles.
C15_TemplateHrefs ==
    /\ (pc = "returned" /\ self.kind = "CollectionLinks") =>
          /\ HasRel("self") /\ LinkOfRel("self").href = CollectionHref(self)
          /\ HasRel("parent") /\ LinkOfRel("parent").href = self.request.base_url
          /\ HasRel("items")
          /\ LinkOfRel("items").href = CollectionHref(self) \o <<"/">> \o ItemsPath
    /\ (pc = "returned" /\ self.kind = "ItemLinks") =>
          /\ HasRel("self") /\ LinkOfRel("self").href = ItemHref(self)
          /\ HasRel("parent") /\ LinkOfRel("parent").href = CollectionHref(self)
          /\ HasRel("collection") /\ LinkOfRel("collection").href = CollectionHref(self)
          /\ HasRel("alternate")
          /\ LinkOfRel("alternate").title = "tiles"
          /\ LinkOfRel("alternate").href = ItemHref(self) \o <<"/">> \o TilesPath

\* the links of a collection were built by an application mounted under a path
C15_Witness ==
    /\ pc = "returned"
    /\ self.kind = "CollectionLinks"
    /\ self.request.base_url = MountedBaseUrl
    /\ HasRel("items")

\* the item's self URL, as text
TileItemHref == t_args.base_url \o Collections \o <<"/">> \o t_args.collection_id
                  \o <<"/">> \o ItemsPath \o <<"/">> \o t_args.item_id

\* a link method returned a link with the given href
Gave(out, href) == out # AttributeError /\ out.href = href

\* C16: a TileLinks object constructed from base_url, collection_id and
\* item_id produces its four links without error: every link method that
\* was called returned a link whose href is its template, resolved against
\* base_url, with the item's self URL as the url query parameter.
C16_TileLinksProduce ==
    t_pc = "built" =>
        /\ t_out.tiles # None
              => Gave(t_out.tiles, t_args.base_url \o TitilerTiles \o TileItemHref)
        /\ t_out.viewer # None
              => Gave(t_out.viewer, t_args.base_url \o TitilerViewer \o TileItemHref)
        /\ t_out.tilejson # None
              => Gave(t_out.tilejson, t_args.base_url \o TitilerTilejson \o TileItemHref)
        /\ t_out.wmts # None
              => Gave(t_out.wmts, t_args.base_url \o TitilerWmts \o TileItemHref)

\* a producer of self fails on the payload of the request
ProducerFails ==
    /\ self.request.method = "POST"
    /\ create_links(self, self.request.body).raised # None

\* C17: failure isolation.  When a producer fails while the link set is
\* built, get_links still returns a list, which holds the links of the
\* other producers (root and self among them) and is not empty.
C17_FailureIsolated ==
    (pc \in {"returned", "raised"} /\ ProducerFails) =>
        /\ pc = "returned"
        /\ links # <<>>
        /\ \E i \in 1..Len(links) : links[i] # None /\ links[i].rel = "root"
        /\ \E i \in 1..Len(links) : links[i] # None /\ links[i].rel = "self"

\* an href that names its scheme and host
IsAbsolute(href) == StartsWith(href, <<"h", "t", "t", "p", ":", "/", "/">>)

\* C18: every extra_links entry whose relation is not inferred is in the
\* output of get_links after all generated links, in the order supplied,
\* with its href resolved against the base URL: an absolute href is
\* unchanged, a relative one is the base URL followed by it, and resolving
\* the resolved href again gives the same href.
C18_ExtrasResolvedInOrder ==
    pc = "returned" =>
        /\ Len(links) = Len(Producers(self.kind)) + Len(NonInferred(raw_links))
        /\ \A i \in 1..Len(NonInferred(raw_links)) :
              /\ Passed[i].rel = NonInferred(raw_links)[i].rel
              /\ Passed[i].type = NonInferred(raw_links)[i].type
              /\ Passed[i].href =
                    IF IsAbsolute(NonInferred(raw_links)[i].href)
                    THEN NonInferred(raw_links)[i].href
                    ELSE self.request.base_url \o NonInferred(raw_links)[i].href
              /\ resolve(self, Passed[i].href) = Passed[i].href

\* an application mounted under a path returned, for the second time, a
\* stored link with a relative href followed by one with an absolute href
C18_Witness ==
    /\ pc = "returned"
    /\ calls >= 2
    /\ self.request.base_url = MountedBaseUrl
    /\ Len(raw_links) = 2
    /\ raw_links[1].rel = "license" /\ raw_links[1].href = <<"d">>
    /\ raw_links[2].rel = "license" /\ raw_links[2].href = StaleHref

\* C19: in the sequence get_links returns, the generated self and root
\* links come before every other link.
C19_SelfRootFirst ==
    pc = "returned" =>
        \A i \in 1..Len(Generated) : \A j \in 1..Len(links) :
            (/\ Generated[i] # None
             /\ Generated[i].rel \in {"self", "root"}
             /\ links[j] # None
             /\ links[j].rel \notin {"self", "root"})
            => i < j

\* the fields of an href's query that assign the token parameter
TokenFields(href) ==
    SelectSeq(Split(urlparse(href).query, "&"), LAMBDA f : StartsWith(f, TokenKey \o <<"=">>))

\* the href carries the token exactly once and parses back to it
CarriesToken(href, token) ==
    /\ Len(TokenFields(href)) = 1
    /\ ValuesOf(parse_qs(urlparse(href).query), TokenKey) = <<token>>

\* C20: on a GET paging request, whatever token the request URL already
\* holds, the next href and the previous href each hold exactly one token
\* query parameter, and parsing the href's query string gives back exactly
\* "next:<cursor>" and "prev:<cursor>", for every cursor string.
C20_TokenRoundTrip ==
    (pc = "returned" /\ self.kind = "PagingLinks" /\ self.request.method = "GET") =>
        /\ self.next # NoStr
              => (HasRel("next")
                  /\ CarriesToken(LinkOfRel("next").href, NextPrefix \o self.next))
        /\ self.prev # NoStr
              => (HasRel("previous")
                  /\ CarriesToken(LinkOfRel("previous").href, PrevPrefix \o self.prev))

\* C21: when get_links runs for two requests at the same time, interleaved
\* at the read of the request body, each request gets the links it gets when
\* it runs alone, a request whose call fails alone fails here and no other
\* does, and the shared default extra_links list is empty after every call.
C21_RequestsIsolated ==
    /\ c_default = <<>>
    /\ \A h \in Handlers :
        /\ c_pc[h] = "returned" =>
              /\ create_links(c_self[h], c_self[h].request.body).raised = None
              /\ Serialized(c_links[h], c_postbody[h]) = get_links(c_self[h])
        /\ c_pc[h] = "raised" =>
              create_links(c_self[h], c_self[h].request.body).raised # None

\* both handlers were suspended at their reads at once, both have returned
\* twice, and their POST requests differ in payload and in cursor
C21_Witness ==
    /\ c_overlap
    /\ \A h \in Handlers :
        /\ c_pc[h] = "returned"
        /\ c_calls[h] = 2
        /\ c_self[h].request.method = "POST"
    /\ c_self[1].next # c_self[2].next
    /\ c_self[1].request.body # c_self[2].request.body

====
